---------------------------- MODULE Spec2Model ----------------------------
(***************************************************************************)
(* Model of RunNewsAgentScript/__init__.py: the HTTP-triggered handler     *)
(* `main`, the two outbound calls it makes, the JSON payload extractor     *)
(* `extract_news_content` and the date normaliser `parse_date`.            *)
(*                                                                         *)
(* Python strings are sequences of one-character strings, so that strip,   *)
(* split, find, rfind, re.sub, json.loads, json.dumps, strptime,           *)
(* fromisoformat and strftime are computed rather than assumed.            *)
(* Python objects coming out of JSON are records [t, s, items].            *)
(***************************************************************************)
EXTENDS Integers, Sequences, FiniteSets, TLC

VARIABLES
    pc,                     \* per invocation: position of main
    user_id,                \* per invocation: local user_id (line 121)
    session_response,       \* per invocation: the server's answer to create_session
    conversation_response,  \* per invocation: the server's answer to run_conversation
    news_data,              \* per invocation: what extract_news_content returned
    http,                   \* per invocation: the func.HttpResponse returned
    calls,                  \* per invocation: outbound requests issued, in order
    now,                    \* datetime.now(timezone.utc)
    padYear,                \* whether the C library's %Y zero-pads years < 1000
    phase,                  \* harness position when a helper is called directly
    date_arg,               \* argument handed to parse_date
    date_ret,               \* what parse_date produced
    reply_arg,              \* argument handed to extract_news_content
    reply_ret               \* what extract_news_content produced

vars == <<pc, user_id, session_response, conversation_response, news_data,
          http, calls, now, padYear, phase, date_arg, date_ret, reply_arg,
          reply_ret>>

-----------------------------------------------------------------------------
(* Python values *)

JNull == [t |-> "null", s |-> <<>>, items |-> <<>>]

JTrue == [t |-> "true", s |-> <<>>, items |-> <<>>]

JFalse == [t |-> "false", s |-> <<>>, items |-> <<>>]

JStr(chars) == [t |-> "str", s |-> chars, items |-> <<>>]

JNum(digits) == [t |-> "num", s |-> digits, items |-> <<>>]

JArr(elems) == [t |-> "arr", s |-> <<>>, items |-> elems]

\* a dict keeps insertion order: items is a sequence of [k, v] with distinct k
JObj(members) == [t |-> "obj", s |-> <<>>, items |-> members]

Member(key, val) == [k |-> key, v |-> val]

\* the outcome of a call: a returned value, or the exception that left it
Ok(val) == [exc |-> "none", v |-> val]

Raise(e, dflt) == [exc |-> e, v |-> dflt]

-----------------------------------------------------------------------------
(* str helpers *)

Digits == <<"0", "1", "2", "3", "4", "5", "6", "7", "8", "9">>

UpperCase == <<"A","B","C","D","E","F","G","H","I","J","K","L","M",
               "N","O","P","Q","R","S","T","U","V","W","X","Y","Z">>

LowerCase == <<"a","b","c","d","e","f","g","h","i","j","k","l","m",
               "n","o","p","q","r","s","t","u","v","w","x","y","z">>

IsDigit(c) == \E n \in 1..10 : Digits[n] = c

DigitValue(c) == (CHOOSE n \in 1..10 : Digits[n] = c) - 1

IsSpace(c) == c \in {" ", "\t", "\n", "\r"}

lower(c) ==
    IF \E n \in 1..26 : UpperCase[n] = c
    THEN LowerCase[CHOOSE n \in 1..26 : UpperCase[n] = c]
    ELSE c

LowerStr(s) == [n \in 1..Len(s) |-> lower(s[n])]

\* s[a..b) in Python's half-open, 0-based slicing: s[a:b]
Slice(s, a, b) == IF b <= a THEN <<>> ELSE SubSeq(s, a + 1, b)

\* str.find: 0-based index of the first occurrence, -1 when absent
find(s, sub) ==
    LET hits == {n \in 0..(Len(s) - Len(sub)) : Slice(s, n, n + Len(sub)) = sub}
    IN  IF hits = {} THEN -1 ELSE CHOOSE n \in hits : \A m \in hits : n <= m

\* str.rfind: 0-based index of the last occurrence, -1 when absent
rfind(s, sub) ==
    LET hits == {n \in 0..(Len(s) - Len(sub)) : Slice(s, n, n + Len(sub)) = sub}
    IN  IF hits = {} THEN -1 ELSE CHOOSE n \in hits : \A m \in hits : n >= m

\* sub in s
Contains(s, sub) == find(s, sub) # -1

\* str.strip()
strip(s) ==
    LET solid == {n \in 1..Len(s) : ~IsSpace(s[n])}
    IN  IF solid = {} THEN <<>>
        ELSE SubSeq(s, CHOOSE n \in solid : \A m \in solid : n <= m,
                       CHOOSE n \in solid : \A m \in solid : n >= m)

RECURSIVE SplitFrom(_, _, _)
SplitFrom(s, n, cur) ==
    IF n > Len(s) THEN (IF cur = <<>> THEN <<>> ELSE <<cur>>)
    ELSE IF IsSpace(s[n])
         THEN (IF cur = <<>> THEN <<>> ELSE <<cur>>) \o SplitFrom(s, n + 1, <<>>)
         ELSE SplitFrom(s, n + 1, Append(cur, s[n]))

\* str.split(): the maximal runs of non-whitespace, in order
split(s) == SplitFrom(s, 1, <<>>)

\* re.search(r'\d+', s): the first maximal run of digits (<<>>: no match)
FirstDigitRun(s) ==
    LET ds == {n \in 1..Len(s) : IsDigit(s[n])}
    IN  IF ds = {} THEN <<>>
        ELSE LET a == CHOOSE n \in ds : \A m \in ds : n <= m
                 ends == {n \in a..Len(s) : \A m \in a..n : IsDigit(s[m])}
                 b == CHOOSE n \in ends : \A m \in ends : n >= m
             IN  SubSeq(s, a, b)

IsDigits(s) == s # <<>> /\ \A n \in 1..Len(s) : IsDigit(s[n])

RECURSIVE int(_)
\* int(...) of a run of decimal digits
int(s) == IF s = <<>> THEN 0 ELSE 10 * int(SubSeq(s, 1, Len(s) - 1)) + DigitValue(s[Len(s)])

RECURSIVE str(_)
\* str(n) for n >= 0
str(n) == IF n < 10 THEN <<Digits[n + 1]>> ELSE Append(str(n \div 10), Digits[(n % 10) + 1])

RECURSIVE Flatten(_, _, _)
\* pieces[lo] \o ... \o pieces[hi]
Flatten(pieces, lo, hi) ==
    IF lo > hi THEN <<>>
    ELSE IF lo = hi THEN pieces[lo]
    ELSE Flatten(pieces, lo, (lo + hi) \div 2) \o Flatten(pieces, ((lo + hi) \div 2) + 1, hi)

\* date_string.replace('Z', '+00:00'): every Z, not only a trailing one
ReplaceZ(s) ==
    Flatten([n \in 1..Len(s) |->
                IF s[n] = "Z" THEN <<"+","0","0",":","0","0">> ELSE <<s[n]>>],
            1, Len(s))

-----------------------------------------------------------------------------
(* datetime: the proleptic Gregorian calendar of Python's datetime module *)

MINYEAR == 1

MAXYEAR == 9999

\* largest |days| a timedelta may hold
MaxDeltaDays == 999999999

MinutesPerDay == 1440

MonthAbbr == << <<"j","a","n">>, <<"f","e","b">>, <<"m","a","r">>, <<"a","p","r">>,
                <<"m","a","y">>, <<"j","u","n">>, <<"j","u","l">>, <<"a","u","g">>,
                <<"s","e","p">>, <<"o","c","t">>, <<"n","o","v">>, <<"d","e","c">> >>

IsLeap(y) == y % 4 = 0 /\ (y % 100 # 0 \/ y % 400 = 0)

DaysInMonth(y, m) ==
    IF m = 2 THEN (IF IsLeap(y) THEN 29 ELSE 28)
    ELSE IF m \in {4, 6, 9, 11} THEN 30 ELSE 31

\* days before January 1st of year y
DaysBeforeYear(y) ==
    (y - 1) * 365 + ((y - 1) \div 4) - ((y - 1) \div 100) + ((y - 1) \div 400)

RECURSIVE DaysBeforeMonth(_, _)
\* days of year y before the first of month m
DaysBeforeMonth(y, m) ==
    IF m = 1 THEN 0 ELSE DaysBeforeMonth(y, m - 1) + DaysInMonth(y, m - 1)

Date(y, m, d) == [y |-> y, m |-> m, d |-> d]

ValidDate(y, m, d) ==
    /\ y \in MINYEAR..MAXYEAR
    /\ m \in 1..12
    /\ d >= 1
    /\ d <= DaysInMonth(y, m)

\* date.toordinal(): 0001-01-01 is day 1
toordinal(dt) == DaysBeforeYear(dt.y) + DaysBeforeMonth(dt.y, dt.m) + dt.d

\* date.fromordinal(n), for 1 <= n <= toordinal(9999-12-31)
fromordinal(n) ==
    LET n0 == n - 1
        n400 == n0 \div 146097
        r400 == n0 % 146097
        n100 == r400 \div 36524
        r100 == r400 % 36524
        n4 == r100 \div 1461
        r4 == r100 % 1461
        n1 == r4 \div 365
        r1 == r4 % 365
        year == n400 * 400 + n100 * 100 + n4 * 4 + n1 + 1
    IN  IF n1 = 4 \/ n100 = 4 THEN Date(year - 1, 12, 31)
        ELSE LET month == CHOOSE m \in 1..12 :
                              /\ DaysBeforeMonth(year, m) <= r1
                              /\ r1 < DaysBeforeMonth(year, m) + DaysInMonth(year, m)
             IN  Date(year, month, r1 - DaysBeforeMonth(year, month) + 1)

MaxOrdinal == toordinal(Date(MAXYEAR, 12, 31))

\* an aware datetime in UTC, to the minute
DateTime(y, m, d, hh, mm) == [ord |-> toordinal(Date(y, m, d)), min |-> hh * 60 + mm]

\* timedelta(hours=v), timedelta(days=v), timedelta(minutes=v), normalised to
\* whole days and minutes of a day; the constructor raises OverflowError when
\* the days exceed MaxDeltaDays
timedelta(unit, value) ==
    LET days == IF unit = "h" THEN value \div 24
                ELSE IF unit = "d" THEN value
                ELSE value \div MinutesPerDay
        mins == IF unit = "h" THEN (value % 24) * 60
                ELSE IF unit = "d" THEN 0
                ELSE value % MinutesPerDay
    IN  IF days > MaxDeltaDays
        THEN Raise("OverflowError", [days |-> 0, mins |-> 0])
        ELSE Ok([days |-> days, mins |-> mins])

\* datetime - timedelta: OverflowError when the result leaves MINYEAR..MAXYEAR
MinusDelta(when, delta) ==
    LET borrow == IF when.min < delta.mins THEN 1 ELSE 0
        ord == when.ord - delta.days - borrow
    IN  IF ord < 1 \/ ord > MaxOrdinal
        THEN Raise("OverflowError", when)
        ELSE Ok([ord |-> ord, min |-> (when.min - delta.mins) + borrow * MinutesPerDay])

RECURSIVE ZeroPad(_, _)
ZeroPad(s, width) == IF Len(s) >= width THEN s ELSE ZeroPad(<<"0">> \o s, width)

\* strftime's %Y hands the year to the C library: glibc prints years below
\* 1000 without leading zeros, other libraries pad to four digits
FormatYear(y, pad) == IF pad THEN ZeroPad(str(y), 4) ELSE str(y)

\* .strftime('%Y-%m-%d')
strftime(dt, pad) ==
    FormatYear(dt.y, pad) \o <<"-">> \o ZeroPad(str(dt.m), 2) \o <<"-">>
        \o ZeroPad(str(dt.d), 2)

\* %d of strptime: 3[0-1] | [1-2]\d | 0[1-9] | [1-9]
IsDayDirective(tok) ==
    \/ Len(tok) = 1 /\ IsDigit(tok[1]) /\ tok[1] # "0"
    \/ Len(tok) = 2 /\ IsDigit(tok[1]) /\ IsDigit(tok[2])
        /\ int(tok) >= 1 /\ int(tok) <= 31

\* datetime.strptime(text, "%b %d %Y"): month abbreviation (any case), day,
\* four-digit year, separated by whitespace, nothing before or after; the
\* date must exist.  ok = FALSE stands for ValueError.
strptime(text) ==
    LET toks == split(text)
        bad == [ok |-> FALSE, date |-> Date(1, 1, 1)]
    IN  IF text = <<>> \/ IsSpace(text[1]) \/ IsSpace(text[Len(text)]) \/ Len(toks) # 3
        THEN bad
        ELSE LET b == LowerStr(toks[1])
                 d == toks[2]
                 Y == toks[3]
             IN  IF /\ \E m \in 1..12 : MonthAbbr[m] = b
                    /\ IsDayDirective(d)
                    /\ Len(Y) = 4 /\ IsDigits(Y)
                 THEN LET month == CHOOSE m \in 1..12 : MonthAbbr[m] = b
                      IN  IF ValidDate(int(Y), month, int(d))
                          THEN [ok |-> TRUE, date |-> Date(int(Y), month, int(d))]
                          ELSE bad
                 ELSE bad

\* HH:MM:SS with fields in range
IsClock(s) ==
    /\ Len(s) = 8
    /\ s[3] = ":" /\ s[6] = ":"
    /\ \A n \in {1, 2, 4, 5, 7, 8} : IsDigit(s[n])
    /\ int(SubSeq(s, 1, 2)) <= 23
    /\ int(SubSeq(s, 4, 5)) <= 59
    /\ int(SubSeq(s, 7, 8)) <= 59

\* +HH:MM or -HH:MM
IsOffset(s) ==
    /\ Len(s) = 6
    /\ s[1] \in {"+", "-"}
    /\ s[4] = ":"
    /\ \A n \in {2, 3, 5, 6} : IsDigit(s[n])
    /\ int(SubSeq(s, 2, 3)) <= 23
    /\ int(SubSeq(s, 5, 6)) <= 59

\* datetime.fromisoformat(text), for the forms every supported Python accepts:
\* YYYY-MM-DD, optionally followed by one separator character and HH:MM:SS,
\* optionally followed by a UTC offset.  ok = FALSE stands for ValueError.
fromisoformat(text) ==
    LET bad == [ok |-> FALSE, date |-> Date(1, 1, 1)]
    IN  IF /\ Len(text) >= 10
           /\ text[5] = "-" /\ text[8] = "-"
           /\ \A n \in {1, 2, 3, 4, 6, 7, 9, 10} : IsDigit(text[n])
        THEN LET y == int(SubSeq(text, 1, 4))
                 m == int(SubSeq(text, 6, 7))
                 d == int(SubSeq(text, 9, 10))
                 rest == SubSeq(text, 11, Len(text))
             IN  IF /\ ValidDate(y, m, d)
                    /\ \/ rest = <<>>
                       \/ Len(rest) = 9 /\ IsClock(Tail(rest))
                       \/ Len(rest) = 15 /\ IsClock(SubSeq(rest, 2, 9))
                            /\ IsOffset(SubSeq(rest, 10, 15))
                 THEN [ok |-> TRUE, date |-> Date(y, m, d)]
                 ELSE bad
        ELSE bad

-----------------------------------------------------------------------------
(* parse_date *)

Ago == <<"a", "g", "o">>

\* lines 27-45: the branch taken when 'ago' occurs in the stripped string
RelativeDate(s, when, pad, current_date_str) ==
    LET parts == split(s)
        digits == FirstDigitRun(parts[1])
    IN  IF digits = <<>> THEN Ok(current_date_str)         \* AttributeError, caught
        ELSE IF Len(parts) < 2 THEN Ok(current_date_str)   \* IndexError, caught
        ELSE LET value == int(digits)
                 unit == lower(parts[2][1])
             IN  IF unit \notin {"h", "d", "m"} THEN Ok(current_date_str)
                 ELSE LET delta == timedelta(unit, value)
                      IN  IF delta.exc # "none"
                          THEN Raise(delta.exc, <<>>)       \* OverflowError, not caught
                          ELSE LET past_date == MinusDelta(when, delta.v)
                               IN  IF past_date.exc # "none"
                                   THEN Raise(past_date.exc, <<>>)
                                   ELSE Ok(strftime(fromordinal(past_date.v.ord), pad))

\* parse_date(date_string) evaluated at UTC time `when`
parse_date(date_string, when, pad) ==
    LET current_date_str == strftime(fromordinal(when.ord), pad)
    IN  IF date_string.t # "str" THEN Ok(current_date_str)
        ELSE LET s == strip(date_string.s)
                 year == fromordinal(when.ord).y
             IN  IF Contains(s, Ago) THEN RelativeDate(s, when, pad, current_date_str)
                 ELSE LET parsed == strptime(s \o <<" ">> \o str(year))
                      IN  IF parsed.ok THEN Ok(strftime(parsed.date, pad))
                          ELSE LET iso == fromisoformat(ReplaceZ(s))
                               IN  IF iso.ok THEN Ok(strftime(iso.date, pad))
                                   ELSE Ok(current_date_str)

-----------------------------------------------------------------------------
(* dict and subscript operations on Python values *)

HasKey(obj, key) == \E n \in 1..Len(obj.items) : obj.items[n].k = key

\* dict.get(key): None when absent
DictGet(obj, key) ==
    IF HasKey(obj, key)
    THEN obj.items[CHOOSE n \in 1..Len(obj.items) : obj.items[n].k = key].v
    ELSE JNull

\* d[key] = val: an existing key keeps its place, a new key goes last
DictSet(obj, key, val) ==
    IF HasKey(obj, key)
    THEN JObj([n \in 1..Len(obj.items) |->
                  IF obj.items[n].k = key THEN Member(key, val) ELSE obj.items[n]])
    ELSE JObj(Append(obj.items, Member(key, val)))

\* v[key] for a str key
Subscript(val, key) ==
    IF val.t = "obj"
    THEN (IF HasKey(val, key) THEN Ok(DictGet(val, key)) ELSE Raise("KeyError", JNull))
    ELSE Raise("TypeError", JNull)

\* v[0]
SubscriptZero(val) ==
    IF val.t = "arr"
    THEN (IF val.items # <<>> THEN Ok(val.items[1]) ELSE Raise("IndexError", JNull))
    ELSE IF val.t = "str"
    THEN (IF val.s # <<>> THEN Ok(JStr(<<val.s[1]>>)) ELSE Raise("IndexError", JNull))
    ELSE IF val.t = "obj" THEN Raise("KeyError", JNull)
    ELSE Raise("TypeError", JNull)

\* bool(v)
Truthy(val) ==
    IF val.t \in {"null", "false"} THEN FALSE
    ELSE IF val.t = "true" THEN TRUE
    ELSE IF val.t = "str" THEN val.s # <<>>
    ELSE IF val.t = "num" THEN \E n \in 1..Len(val.s) : val.s[n] # "0"
    ELSE val.items # <<>>

-----------------------------------------------------------------------------
(* json.loads, for documents without escapes, fractions, exponents or signs *)

Quote == "\""

\* the first index >= i that holds no whitespace (Len(s) + 1 when none)
SkipWs(s, i) ==
    CHOOSE j \in i..(Len(s) + 1) :
        /\ j = Len(s) + 1 \/ ~IsSpace(s[j])
        /\ \A m \in i..(j - 1) : IsSpace(s[m])

\* the first index >= i that holds no digit
DigitsEnd(s, i) ==
    CHOOSE j \in i..(Len(s) + 1) :
        /\ j = Len(s) + 1 \/ ~IsDigit(s[j])
        /\ \A m \in i..(j - 1) : IsDigit(s[m])

Parsed(val, next) == [ok |-> TRUE, v |-> val, i |-> next]

ParseFail == [ok |-> FALSE, v |-> JNull, i |-> 0]

StartsWith(s, i, word) ==
    i + Len(word) - 1 <= Len(s) /\ SubSeq(s, i, i + Len(word) - 1) = word

\* a string literal opening at s[i]: up to the next quote; a raw control
\* character inside it is an error
ParseString(s, i) ==
    LET closes == {n \in (i + 1)..Len(s) : s[n] = Quote}
    IN  IF closes = {} THEN ParseFail
        ELSE LET j == CHOOSE n \in closes : \A m \in closes : n <= m
                 body == SubSeq(s, i + 1, j - 1)
             IN  IF \E n \in 1..Len(body) : body[n] \in {"\n", "\t", "\r", "\\"}
                 THEN ParseFail
                 ELSE Parsed(JStr(body), j + 1)

RECURSIVE ParseValue(_, _)
RECURSIVE ParseElements(_, _, _)
RECURSIVE ParseMembers(_, _, _)

\* the JSON value that starts at s[i]
ParseValue(s, i) ==
    IF i > Len(s) THEN ParseFail
    ELSE IF s[i] = "{"
    THEN LET j == SkipWs(s, i + 1)
         IN  IF j <= Len(s) /\ s[j] = "}" THEN Parsed(JObj(<<>>), j + 1)
             ELSE ParseMembers(s, j, JObj(<<>>))
    ELSE IF s[i] = "["
    THEN LET j == SkipWs(s, i + 1)
         IN  IF j <= Len(s) /\ s[j] = "]" THEN Parsed(JArr(<<>>), j + 1)
             ELSE ParseElements(s, j, <<>>)
    ELSE IF s[i] = Quote THEN ParseString(s, i)
    ELSE IF s[i] = "0" THEN Parsed(JNum(<<"0">>), i + 1)
    ELSE IF IsDigit(s[i])
    THEN Parsed(JNum(SubSeq(s, i, DigitsEnd(s, i) - 1)), DigitsEnd(s, i))
    ELSE IF StartsWith(s, i, <<"n","u","l","l">>) THEN Parsed(JNull, i + 4)
    ELSE IF StartsWith(s, i, <<"t","r","u","e">>) THEN Parsed(JTrue, i + 4)
    ELSE IF StartsWith(s, i, <<"f","a","l","s","e">>) THEN Parsed(JFalse, i + 5)
    ELSE ParseFail

\* array elements from s[i] on, after `[` or `,`
ParseElements(s, i, acc) ==
    LET e == ParseValue(s, i)
    IN  IF ~e.ok THEN ParseFail
        ELSE LET j == SkipWs(s, e.i)
             IN  IF j > Len(s) THEN ParseFail
                 ELSE IF s[j] = "]" THEN Parsed(JArr(Append(acc, e.v)), j + 1)
                 ELSE IF s[j] = "," THEN ParseElements(s, SkipWs(s, j + 1), Append(acc, e.v))
                 ELSE ParseFail

\* object members from s[i] on, after `{` or `,`: "key" : value
ParseMembers(s, i, acc) ==
    IF i > Len(s) \/ s[i] # Quote THEN ParseFail
    ELSE LET key == ParseString(s, i)
         IN  IF ~key.ok THEN ParseFail
             ELSE LET c == SkipWs(s, key.i)
                  IN  IF c > Len(s) \/ s[c] # ":" THEN ParseFail
                      ELSE LET e == ParseValue(s, SkipWs(s, c + 1))
                           IN  IF ~e.ok THEN ParseFail
                               ELSE LET j == SkipWs(s, e.i)
                                        obj == DictSet(acc, key.v.s, e.v)
                                    IN  IF j > Len(s) THEN ParseFail
                                        ELSE IF s[j] = "}" THEN Parsed(obj, j + 1)
                                        ELSE IF s[j] = ","
                                        THEN ParseMembers(s, SkipWs(s, j + 1), obj)
                                        ELSE ParseFail

\* json.loads(s): one value, whitespace around it, nothing else
json_loads(s) ==
    LET e == ParseValue(s, SkipWs(s, 1))
    IN  IF e.ok /\ SkipWs(s, e.i) > Len(s) THEN Ok(e.v)
        ELSE Raise("JSONDecodeError", JNull)

-----------------------------------------------------------------------------
(* extract_news_content *)

\* a match of }\s*{ starts at s[i]
BraceGapAt(s, i) ==
    s[i] = "}" /\ SkipWs(s, i + 1) <= Len(s) /\ s[SkipWs(s, i + 1)] = "{"

\* s[i] lies in a match of }\s*{ that starts before it (matches cannot overlap:
\* between the braces of one there is only whitespace)
InBraceGap(s, i) ==
    /\ s[i] = "{" \/ IsSpace(s[i])
    /\ \E a \in 1..(i - 1) : BraceGapAt(s, a) /\ i <= SkipWs(s, a + 1)

\* re.sub(r'}\s*{', '}, {', s) left as it is: no repair
ReSubOff(s) == s

\* re.sub(r'}\s*{', '}, {', s)
ReSub(s) ==
    Flatten([n \in 1..Len(s) |->
                IF BraceGapAt(s, n) THEN <<"}", ",", " ", "{">>
                ELSE IF InBraceGap(s, n) THEN <<>>
                ELSE <<s[n]>>],
            1, Len(s))

TextPath == << <<"c","o","n","t","e","n","t">>, <<"p","a","r","t","s">>,
               <<"t","e","x","t">> >>

\* lines 92-93: response[0]['content']['parts'][0]['text']
RawContent(response) ==
    LET content == Subscript(response.items[1], TextPath[1])
    IN  IF content.exc # "none" THEN content
        ELSE LET parts == Subscript(content.v, TextPath[2])
             IN  IF parts.exc # "none" THEN parts
                 ELSE LET part == SubscriptZero(parts.v)
                      IN  IF part.exc # "none" THEN part
                          ELSE Subscript(part.v, TextPath[3])

\* lines 96-110 on the text found: slice first `{` .. last `}`, repair, parse
ParseContent(raw_content) ==
    IF raw_content.t # "str" THEN Raise("AttributeError", JNull)
    ELSE LET json_start_index == find(raw_content.s, <<"{">>)
             json_end_index == rfind(raw_content.s, <<"}">>)
         IN  IF json_start_index = -1 \/ json_end_index = -1 THEN Ok(JNull)
             ELSE json_loads(ReSub(Slice(raw_content.s, json_start_index,
                                         json_end_index + 1)))

\* the body of the try block, lines 91-110
ExtractTry(response) ==
    IF response.t # "arr" \/ response.items = <<>> THEN Ok(JNull)
    ELSE LET raw_content == RawContent(response)
         IN  IF raw_content.exc # "none" THEN raw_content
             ELSE ParseContent(raw_content.v)

\* lines 112-115 narrowed to `except json.JSONDecodeError`
ExceptDecodeErrorOnly(outcome) ==
    IF outcome.exc = "JSONDecodeError" THEN Ok(JNull) ELSE outcome

\* lines 112-115: `except Exception` turns every exception into None
ExceptException(outcome) == IF outcome.exc # "none" THEN Ok(JNull) ELSE outcome

extract_news_content(response) == ExceptException(ExtractTry(response))

-----------------------------------------------------------------------------
(* json.dumps(news_data, indent=2) *)

RECURSIVE Spaces(_)
Spaces(n) == IF n = 0 THEN <<>> ELSE <<" ">> \o Spaces(n - 1)

RECURSIVE EscapeStr(_)
EscapeStr(s) ==
    IF s = <<>> THEN <<>>
    ELSE (IF Head(s) \in {Quote, "\\"} THEN <<"\\", Head(s)>> ELSE <<Head(s)>>)
         \o EscapeStr(Tail(s))

DumpStr(s) == <<Quote>> \o EscapeStr(s) \o <<Quote>>

RECURSIVE Dump(_, _)
RECURSIVE DumpItems(_, _, _)

\* items n.. of a non-empty list or dict, one per line at depth `level`
DumpItems(val, n, level) ==
    LET item == val.items[n]
        text == IF val.t = "obj"
                THEN DumpStr(item.k) \o <<":", " ">> \o Dump(item.v, level)
                ELSE Dump(item, level)
    IN  Spaces(2 * level) \o text
        \o (IF n = Len(val.items) THEN <<"\n">>
            ELSE <<",", "\n">> \o DumpItems(val, n + 1, level))

\* the text of `val` when its opening bracket sits at depth `level`
Dump(val, level) ==
    IF val.t = "null" THEN <<"n","u","l","l">>
    ELSE IF val.t = "true" THEN <<"t","r","u","e">>
    ELSE IF val.t = "false" THEN <<"f","a","l","s","e">>
    ELSE IF val.t = "num" THEN val.s
    ELSE IF val.t = "str" THEN DumpStr(val.s)
    ELSE IF val.items = <<>> THEN (IF val.t = "obj" THEN <<"{", "}">> ELSE <<"[", "]">>)
    ELSE <<IF val.t = "obj" THEN "{" ELSE "[">> \o <<"\n">>
         \o DumpItems(val, 1, level + 1)
         \o Spaces(2 * level) \o <<IF val.t = "obj" THEN "}" ELSE "]">>

json_dumps(val) == Dump(val, 0)

-----------------------------------------------------------------------------
(* main *)

NumInvocations == 2

Invocations == 1..NumInvocations

NewsKey == <<"n","e","w","s">>

DateKey == <<"d","a","t","e">>

IdKey == <<"i","d">>

FailedParseMsg == <<"F","a","i","l","e","d"," ","t","o"," ","p","a","r","s","e"," ","n","e","w","s"," ","d","a","t","a"," ","f","r","o","m"," ","r","e","s","p","o","n","s","e">>

FailedSessionMsg == <<"F","a","i","l","e","d"," ","t","o"," ","g","e","t"," ","s","e","s","s","i","o","n"," ","I","D"," ","f","r","o","m"," ","r","e","s","p","o","n","s","e">>

UnexpectedPrefix == <<"A","n"," ","u","n","e","x","p","e","c","t","e","d"," ","e","r","r","o","r"," ","o","c","c","u","r","r","e","d",":"," ">>

\* str(e) of an exception, by its class
ExcText(e) ==
    IF e = "HTTPError" THEN <<"H","T","T","P","E","r","r","o","r">>
    ELSE IF e = "Timeout" THEN <<"T","i","m","e","o","u","t">>
    ELSE IF e = "AttributeError" THEN <<"A","t","t","r","i","b","u","t","e","E","r","r","o","r">>
    ELSE IF e = "TypeError" THEN <<"T","y","p","e","E","r","r","o","r">>
    ELSE IF e = "KeyError" THEN <<"K","e","y","E","r","r","o","r">>
    ELSE IF e = "IndexError" THEN <<"I","n","d","e","x","E","r","r","o","r">>
    ELSE IF e = "OverflowError" THEN <<"O","v","e","r","f","l","o","w","E","r","r","o","r">>
    ELSE <<"E","x","c","e","p","t","i","o","n">>

\* func.HttpResponse(body, status_code=..., mimetype=...); text/plain by default
HttpResponse(body, status_code, mimetype) ==
    [status |-> status_code, body |-> body, mimetype |-> mimetype]

NoHttp == HttpResponse(<<>>, 0, "")

\* lines 139-141: the top-level except clause
Unexpected(e) == HttpResponse(UnexpectedPrefix \o ExcText(e), 500, "text/plain")

\* str(uuid.uuid4()): a value no other invocation draws
uuid4(i) == i

\* user_id=None
None == 0

\* requests.post(...), raise_for_status(), response.json() against what the
\* server did: no answer within the timeout, an error status, or a JSON body
PostJson(reply) ==
    IF reply.status = 0 THEN Raise("Timeout", JNull)
    ELSE IF reply.status >= 400 THEN Raise("HTTPError", JNull)
    ELSE Ok(reply.json)

\* create_session without line 72
create_session_unchecked(reply) ==
    IF reply.status = 0 THEN Raise("Timeout", JNull) ELSE Ok(reply.json)

\* lines 66-73, given the server's reply
create_session(reply) == PostJson(reply)

\* lines 75-81, given the server's reply
run_conversation(reply) == PostJson(reply)

CreateSessionRequest(user) ==
    [fn |-> "create_session", userId |-> user, sessionId |-> JNull]

\* run_conversation(session_id) with user_id left at its default
RunRequestDefaultUser(session_id, user) ==
    [fn |-> "run_conversation", userId |-> None, sessionId |-> session_id]

\* the request of line 125: run_conversation(session_id, user_id)
RunRequest(session_id, user) ==
    [fn |-> "run_conversation", userId |-> user, sessionId |-> session_id]

\* `if session_id is not None or True`: proceeds whatever the id
AnySessionId(session_id) == TRUE

\* line 124: if session_id
HasSessionId(session_id) == Truthy(session_id)

\* key in v
In(key, val) ==
    IF val.t = "obj" THEN Ok(HasKey(val, key))
    ELSE IF val.t = "arr" THEN Ok(\E n \in 1..Len(val.items) : val.items[n] = JStr(key))
    ELSE IF val.t = "str" THEN Ok(Contains(val.s, key))
    ELSE Raise("TypeError", FALSE)

\* `if news_data is not None`
NotNone(news) == news.t # "null"

\* line 127: news_data and 'news' in news_data
HasNews(news) == Truthy(news) /\ In(NewsKey, news).v

\* iter(v): the elements a for loop visits
Iterate(val) ==
    IF val.t = "arr" THEN Ok(val.items)
    ELSE IF val.t = "obj" THEN Ok([n \in 1..Len(val.items) |-> JStr(val.items[n].k)])
    ELSE IF val.t = "str" THEN Ok([n \in 1..Len(val.s) |-> JStr(<<val.s[n]>>)])
    ELSE Raise("TypeError", <<>>)

\* article = {'date': ...}: a fresh dict instead of an assignment
SetDateRebuilt(article, d) ==
    IF d.exc # "none" THEN Raise(d.exc, JNull)
    ELSE Ok(JObj(<<Member(DateKey, JStr(d.v))>>))

\* line 129, the assignment: article['date'] = d, unless parse_date raised
SetDate(article, d) ==
    IF d.exc # "none" THEN Raise(d.exc, JNull)
    ELSE Ok(DictSet(article, DateKey, JStr(d.v)))

\* line 129: article['date'] = parse_date(article.get('date'))
NormalizeArticle(article, when, pad) ==
    IF article.t # "obj" THEN Raise("AttributeError", JNull)
    ELSE SetDate(article, parse_date(DictGet(article, DateKey), when, pad))

\* the loop's outcome from the outcome of each pass: the first exception ends
\* the loop and leaves main's try block
LoopOutcome(passes) ==
    IF \E n \in 1..Len(passes) : passes[n].exc # "none"
    THEN Raise(passes[CHOOSE n \in 1..Len(passes) :
                          /\ passes[n].exc # "none"
                          /\ \A m \in 1..(n - 1) : passes[m].exc = "none"].exc, <<>>)
    ELSE Ok([n \in 1..Len(passes) |-> passes[n].v])

\* lines 128-129 over the elements the loop visits
NormalizeAll(seq, when, pad) ==
    IF seq.exc # "none" THEN seq
    ELSE LoopOutcome([n \in 1..Len(seq.v) |-> NormalizeArticle(seq.v[n], when, pad)])

\* news_data once the loop has run: the articles of a list were changed in place
AfterLoop(news, done) ==
    IF done.exc # "none" THEN Raise(done.exc, JNull)
    ELSE IF DictGet(news, NewsKey).t = "arr"
    THEN Ok(DictSet(news, NewsKey, JArr(done.v)))
    ELSE Ok(news)

\* for article in news_data['news']
Articles(news) ==
    IF ~HasKey(news, NewsKey) THEN Raise("KeyError", <<>>)
    ELSE Iterate(DictGet(news, NewsKey))

\* lines 128-129: news_data after the loop, or the exception that ended it
Normalized(news, when, pad) == AfterLoop(news, NormalizeAll(Articles(news), when, pad))

\* lines 130-134, or lines 139-141 when the loop raised
Answer200(out) ==
    IF out.exc # "none" THEN Unexpected(out.exc)
    ELSE HttpResponse(json_dumps(out.v), 200, "application/json")

\* lines 127-136 and 139-141: the response once extract_news_content returned
Respond(extracted, when, pad) ==
    IF extracted.exc # "none" THEN Unexpected(extracted.exc)
    ELSE IF HasNews(extracted.v) THEN Answer200(Normalized(extracted.v, when, pad))
    ELSE HttpResponse(FailedParseMsg, 500, "text/plain")

\* extract_news_content has not been called
Uncalled == [exc |-> "uncalled", v |-> JNull]

\* lines 126-136: extract_news_content's outcome and the response
Extracted(extracted, when, pad) ==
    [news_data |-> extracted, http |-> Respond(extracted, when, pad)]

\* lines 125-141: what main keeps and answers once run_conversation returned
\* or raised
AfterRun(outcome, when, pad) ==
    IF outcome.exc # "none"
    THEN [news_data |-> Uncalled, http |-> Unexpected(outcome.exc)]
    ELSE Extracted(extract_news_content(outcome.v), when, pad)

\* what main does with a session id: the request of line 125, or line 138
WithSessionId(session_id, user) ==
    IF HasSessionId(session_id)
    THEN [pc |-> "await_run", http |-> NoHttp,
          requests |-> <<RunRequest(session_id, user)>>]
    ELSE [pc |-> "done", http |-> HttpResponse(FailedSessionMsg, 500, "text/plain"),
          requests |-> <<>>]

\* lines 122-125 and 137-141: what main does once create_session returned or
\* raised: the requests it issues next, where it stands, what it answers
AfterSession(outcome, user) ==
    IF outcome.exc # "none"
    THEN [pc |-> "done", http |-> Unexpected(outcome.exc), requests |-> <<>>]
    ELSE IF outcome.v.t # "obj"
    THEN [pc |-> "done", http |-> Unexpected("AttributeError"), requests |-> <<>>]
    ELSE WithSessionId(DictGet(outcome.v, IdKey), user)

-----------------------------------------------------------------------------
(* what the agent service may answer *)

Text(chars) == JStr(chars)

\* a conversation reply carrying `text` at [0].content.parts[0].text
Reply(text) ==
    JArr(<<JObj(<<Member(TextPath[1],
                         JObj(<<Member(TextPath[2],
                                       JArr(<<JObj(<<Member(TextPath[3], text)>>)>>))>>))>>)>>)

Answer(status, json) == [status |-> status, json |-> json]

\* no answer yet
NoAnswer == Answer(-1, JNull)

SessionReplies ==
    { Answer(0, JNull),
      Answer(500, JObj(<<Member(<<"d","e","t","a","i","l">>, JStr(<<"d","o","w","n">>))>>)),
      Answer(200, JObj(<<Member(IdKey, JStr(<<"s","1">>)), Member(<<"a","p","p","N","a","m","e">>, JStr(<<"n","e","w","s","_","a","g","e","n","t">>))>>)),
      Answer(200, JObj(<<Member(<<"u","s","e","r","I","d">>, JStr(<<"u">>)), Member(IdKey, JStr(<<"s","2">>))>>)),
      Answer(200, JObj(<<Member(<<"u","s","e","r","I","d">>, JStr(<<"u">>))>>)),
      Answer(200, JObj(<<Member(IdKey, JNull)>>)),
      Answer(200, JArr(<<>>)) }

GoodText ==
    <<"H","e","r","e"," ","y","o","u"," ","g","o",":","\n","{","\"","n","e","w","s","\"",":","[","{","\"","t","i","t","l","e","\"",":","\"","A","\"",",","\"","d","a","t","e","\"",":","\"","6"," ","h","o","u","r","s"," ","a","g","o","\"",",","\"","u","r","l","\"",":","\"","u","\"","}",",","{","\"","d","a","t","e","\"",":","\"","A","u","g"," ","6","\"",",","\"","t","i","t","l","e","\"",":","\"","B","\"","}",",","{","\"","t","i","t","l","e","\"",":","\"","C","\"","}",",","{","\"","d","a","t","e","\"",":","n","u","l","l","}","]",",","\"","t","o","p","i","c","\"",":","\"","E","V","\"","}","\n","E","n","j","o","y","!">>

OverflowText == <<"{","\"","n","e","w","s","\"",":","[","{","\"","t","i","t","l","e","\"",":","\"","A","\"",",","\"","d","a","t","e","\"",":","\"","A","u","g"," ","6","\"","}",",","{","\"","d","a","t","e","\"",":","\"","8","0","0","0","0","0"," ","d","a","y","s"," ","a","g","o","\"","}","]","}">>

OldYearText == <<"{","\"","n","e","w","s","\"",":","[","{","\"","d","a","t","e","\"",":","\"","0","9","9","9","-","0","1","-","0","1","\"","}","]","}">>

NoBraceText == <<"N","o"," ","n","e","w","s"," ","t","o","d","a","y",".">>

MalformedText == <<"{","\"","n","e","w","s","\"",":","[","{","]","}">>

NoNewsText == <<"{","\"","i","t","e","m","s","\"",":","[","]","}">>

ConversationReplies ==
    { Answer(500, JNull),
      Answer(200, JObj(<<Member(<<"e","r","r","o","r">>, JStr(<<"b","u","s","y">>))>>)),
      Answer(200, Reply(Text(GoodText))),
      Answer(200, Reply(Text(OverflowText))),
      Answer(200, Reply(Text(OldYearText))),
      Answer(200, Reply(Text(NoBraceText))),
      Answer(200, Reply(Text(MalformedText))),
      Answer(200, Reply(Text(NoNewsText))) }

\* datetime.now(timezone.utc) at the moments the model runs the program
MainNow == DateTime(2025, 8, 6, 3, 30)

NowSet == { MainNow, DateTime(2024, 2, 29, 12, 0) }

-----------------------------------------------------------------------------
(* the handler: invocations of main, interleaved at their outbound calls *)

MainInit ==
    /\ pc = [i \in Invocations |-> "start"]
    /\ user_id = [i \in Invocations |-> None]
    /\ session_response = [i \in Invocations |-> NoAnswer]
    /\ conversation_response = [i \in Invocations |-> NoAnswer]
    /\ news_data = [i \in Invocations |-> Uncalled]
    /\ http = [i \in Invocations |-> NoHttp]
    /\ calls = [i \in Invocations |-> <<>>]

HarnessIdle ==
    /\ phase = "main"
    /\ date_arg = JNull
    /\ date_ret = Ok(<<>>)
    /\ reply_arg = JNull
    /\ reply_ret = Ok(JNull)

Init ==
    /\ MainInit
    /\ HarnessIdle
    /\ now = MainNow
    /\ padYear \in BOOLEAN

\* lines 119-122 up to the request of create_session
Start(i) ==
    /\ pc[i] = "start"
    /\ user_id' = [user_id EXCEPT ![i] = uuid4(i)]
    /\ calls' = [calls EXCEPT ![i] = Append(calls[i], CreateSessionRequest(uuid4(i)))]
    /\ pc' = [pc EXCEPT ![i] = "await_session"]
    /\ UNCHANGED <<session_response, conversation_response, news_data, http,
                   now, padYear, phase, date_arg, date_ret, reply_arg, reply_ret>>

\* create_session returns or raises; main goes on to the request of
\* run_conversation or answers
SessionReturns(i) ==
    /\ pc[i] = "await_session"
    /\ \E reply \in SessionReplies :
        \E step \in {AfterSession(create_session(reply), user_id[i])} :
            /\ session_response' = [session_response EXCEPT ![i] = reply]
            /\ calls' = [calls EXCEPT ![i] = calls[i] \o step.requests]
            /\ http' = [http EXCEPT ![i] = step.http]
            /\ pc' = [pc EXCEPT ![i] = step.pc]
    /\ UNCHANGED <<user_id, conversation_response, news_data, now, padYear,
                   phase, date_arg, date_ret, reply_arg, reply_ret>>

\* run_conversation returns or raises; main extracts, normalises and answers
RunReturns(i) ==
    /\ pc[i] = "await_run"
    /\ \E reply \in ConversationReplies :
        \E step \in {AfterRun(run_conversation(reply), now, padYear)} :
            /\ conversation_response' = [conversation_response EXCEPT ![i] = reply]
            /\ news_data' = [news_data EXCEPT ![i] = step.news_data]
            /\ http' = [http EXCEPT ![i] = step.http]
            /\ pc' = [pc EXCEPT ![i] = "done"]
    /\ UNCHANGED <<user_id, session_response, calls, now, padYear, phase,
                   date_arg, date_ret, reply_arg, reply_ret>>

Next == \E i \in Invocations : Start(i) \/ SessionReturns(i) \/ RunReturns(i)

Spec == Init /\ [][Next]_vars

-----------------------------------------------------------------------------
(* parse_date called on its own *)

MaxTokens == 3

DateTokens ==
    { <<"6">>, <<"6","h">>, <<"h","o","u","r","s">>, <<"D","a","y","s">>, <<"m","i","n">>, <<"x">>, <<"a","g","o">>, <<"8","0","0","0","0","0">>, <<"1","0","0","0","0","0","0","0","0","0">>,
      <<"A","u","g">>, <<"F","e","b">>, <<"2","9">> }

\* the tokens of toks joined by single spaces
Join(toks) ==
    Flatten([n \in 1..Len(toks) |-> IF n = 1 THEN toks[n] ELSE <<" ">> \o toks[n]],
            1, Len(toks))

DateStrings ==
    UNION { {Join(toks) : toks \in [1..n -> DateTokens]} : n \in 1..MaxTokens }
    \cup { <<>>, <<" "," ","A","u","g"," ","6"," ">>, <<"a","u","g"," ","0","6">>, <<"0","9","9","9","-","0","1","-","0","1">>, <<"2","0","2","4","-","0","1","-","1","5","T","1","0",":","0","0",":","0","0","Z">>,
           <<"2","0","2","4","-","0","1","-","1","5">>, <<"2","0","2","4","-","0","2","-","3","0">>, <<"2","0","2","4","-","0","1","-","1","5"," ","2","3",":","3","0",":","0","0","-","0","5",":","0","0">>, <<"V","a","r","i","e","s">>,
           <<"N","/","A">>, <<"C","h","i","c","a","g","o">>, <<"1","2","m","o","n","t","h","s"," ","a","g","o">> }

DateInputs ==
    {JStr(s) : s \in DateStrings} \cup {JNull, JNum(<<"6">>), JArr(<<JStr(<<"A","u","g"," ","6">>)>>)}

DateInit ==
    /\ MainInit
    /\ phase = "ready"
    /\ date_arg \in DateInputs
    /\ date_ret = Ok(<<>>)
    /\ reply_arg = JNull
    /\ reply_ret = Ok(JNull)
    /\ now \in NowSet
    /\ padYear \in BOOLEAN

CallParseDate ==
    /\ phase = "ready"
    /\ date_ret' = parse_date(date_arg, now, padYear)
    /\ phase' = "done"
    /\ UNCHANGED <<pc, user_id, session_response, conversation_response, news_data,
                   http, calls, now, padYear, date_arg, reply_arg, reply_ret>>

SpecDate == DateInit /\ [][CallParseDate]_vars

-----------------------------------------------------------------------------
(* extract_news_content called on its own *)

MaxGap == 2

\* the runs of at most MaxGap whitespace characters
Gaps == UNION { [1..n -> {" ", "\n"}] : n \in 0..MaxGap }

ObjectA == <<"{","\"","a","\"",":","1","}">>

ObjectB == <<"{","\"","b","\"",":","2","}">>

\* two objects with nothing but whitespace between them, at top level
TopPair(gap) == ObjectA \o gap \o ObjectB

\* the same two objects as neighbours in the array of an enclosing object
InArray(gap) == <<"{","\"","n","e","w","s","\"",":","[">> \o ObjectA \o gap \o ObjectB \o <<"]","}">>

Prefixes == { <<>>, <<"H","e","r","e"," ","y","o","u"," ","g","o",":","\n">>, <<"~","~","~","j","s","o","n","\n">> }

Suffixes == { <<>>, <<"\n","E","n","j","o","y","!">>, <<"\n","~","~","~">> }

Bodies ==
    {TopPair(g) : g \in Gaps} \cup {InArray(g) : g \in Gaps}
    \cup { NoBraceText, MalformedText, NoNewsText, GoodText, ObjectA,
           <<"o","n","l","y"," ","{"," ","t","h","i","s">>, <<"o","n","l","y"," ","}"," ","t","h","i","s">>, <<"}"," ","{">>, <<"s","e","e"," ","{","x","}",":"," ","{","\"","a","\"",":","1","}">> }

Texts == { pre \o body \o post : pre \in Prefixes, body \in Bodies, post \in Suffixes }

\* replies that are no non-empty list exposing a text at [0].content.parts[0].text
ShapelessReplies ==
    { JNull,
      JObj(<<Member(<<"e","r","r","o","r">>, JStr(<<"b","u","s","y">>))>>),
      JArr(<<>>),
      JArr(<<JStr(ObjectA)>>),
      JArr(<<JObj(<<Member(TextPath[1], JObj(<<>>))>>)>>),
      JArr(<<JObj(<<Member(TextPath[1], JObj(<<Member(TextPath[2], JArr(<<>>))>>))>>)>>),
      JArr(<<JObj(<<Member(TextPath[1], JObj(<<Member(TextPath[2], JStr(ObjectA))>>))>>)>>),
      JArr(<<JObj(<<Member(TextPath[1],
                           JObj(<<Member(TextPath[2], JObj(<<Member(TextPath[3], JStr(ObjectA))>>))>>))>>)>>),
      Reply(JNum(<<"1">>)),
      Reply(JArr(<<JStr(ObjectA)>>)) }

ExtractInputs == {Reply(Text(s)) : s \in Texts} \cup ShapelessReplies

ExtractInit ==
    /\ MainInit
    /\ phase = "ready"
    /\ date_arg = JNull
    /\ date_ret = Ok(<<>>)
    /\ reply_arg \in ExtractInputs
    /\ reply_ret = Ok(JNull)
    /\ now = MainNow
    /\ padYear = TRUE

CallExtract ==
    /\ phase = "ready"
    /\ reply_ret' = extract_news_content(reply_arg)
    /\ phase' = "done"
    /\ UNCHANGED <<pc, user_id, session_response, conversation_response, news_data,
                   http, calls, now, padYear, date_arg, date_ret, reply_arg>>

SpecExtract == ExtractInit /\ [][CallExtract]_vars

-----------------------------------------------------------------------------
(* vocabulary of the properties *)

\* s has the form YYYY-MM-DD: four digits, two digits, two digits
IsYMD(s) ==
    /\ Len(s) = 10
    /\ s[5] = "-" /\ s[8] = "-"
    /\ \A n \in {1, 2, 3, 4, 6, 7, 9, 10} : IsDigit(s[n])

\* the date dt written YYYY-MM-DD
IsoText(dt) ==
    ZeroPad(str(dt.y), 4) \o <<"-">> \o ZeroPad(str(dt.m), 2) \o <<"-">>
        \o ZeroPad(str(dt.d), 2)

Keys(obj) == [n \in 1..Len(obj.items) |-> obj.items[n].k]

IsOtherMember(m) == m.k # DateKey

\* every article of the list `news` is a mapping whose date has the form YYYY-MM-DD
AllDated(news) ==
    \A n \in 1..Len(news.items) :
        /\ news.items[n].t = "obj"
        /\ DictGet(news.items[n], DateKey).t = "str"
        /\ IsYMD(DictGet(news.items[n], DateKey).s)

\* `after` is `before` with nothing changed but the value (or the arrival, at
\* the end) of its date
SameButDate(before, after) ==
    /\ after.t = "obj"
    /\ SelectSeq(before.items, IsOtherMember) = SelectSeq(after.items, IsOtherMember)
    /\ Keys(after) = IF HasKey(before, DateKey) THEN Keys(before)
                     ELSE Append(Keys(before), DateKey)

\* `after` is the payload `before` with nothing changed but the articles' dates
SameButDates(before, after) ==
    /\ after.t = "obj"
    /\ Keys(after) = Keys(before)
    /\ \A n \in 1..Len(before.items) :
           before.items[n].k # NewsKey => after.items[n] = before.items[n]
    /\ DictGet(after, NewsKey).t = DictGet(before, NewsKey).t
    /\ Len(DictGet(after, NewsKey).items) = Len(DictGet(before, NewsKey).items)
    /\ \A n \in 1..Len(DictGet(before, NewsKey).items) :
           SameButDate(DictGet(before, NewsKey).items[n], DictGet(after, NewsKey).items[n])

\* the reply is a non-empty list whose first record holds a str at
\* content -> parts -> first part -> text
ExposesText(reply) ==
    /\ reply.t = "arr" /\ reply.items # <<>>
    /\ reply.items[1].t = "obj" /\ HasKey(reply.items[1], TextPath[1])
    /\ DictGet(reply.items[1], TextPath[1]).t = "obj"
    /\ HasKey(DictGet(reply.items[1], TextPath[1]), TextPath[2])
    /\ DictGet(DictGet(reply.items[1], TextPath[1]), TextPath[2]).t = "arr"
    /\ DictGet(DictGet(reply.items[1], TextPath[1]), TextPath[2]).items # <<>>
    /\ DictGet(DictGet(reply.items[1], TextPath[1]), TextPath[2]).items[1].t = "obj"
    /\ HasKey(DictGet(DictGet(reply.items[1], TextPath[1]), TextPath[2]).items[1], TextPath[3])
    /\ DictGet(DictGet(DictGet(reply.items[1], TextPath[1]), TextPath[2]).items[1],
               TextPath[3]).t = "str"

\* the text of a reply that exposes one
TextOf(reply) ==
    DictGet(DictGet(DictGet(reply.items[1], TextPath[1]), TextPath[2]).items[1],
            TextPath[3]).s

Count(s, c) == Cardinality({n \in 1..Len(s) : s[n] = c})

LacksBrace(s) == Count(s, "{") = 0 \/ Count(s, "}") = 0

\* the only } of s comes before its only {
BracesReversed(s) ==
    /\ Count(s, "{") = 1 /\ Count(s, "}") = 1
    /\ \E a, b \in 1..Len(s) : a < b /\ s[a] = "}" /\ s[b] = "{"

\* the server did not answer, or answered with an error status
IsTransportError(answer) == answer.status = 0 \/ answer.status >= 400

TransportError(answer) == IF answer.status = 0 THEN "Timeout" ELSE "HTTPError"

Answered(answer) == answer.status >= 200 /\ answer.status < 400

RequestsOf(i, fn) == {n \in 1..Len(calls[i]) : calls[i][n].fn = fn}

-----------------------------------------------------------------------------
(* C1 *)

\* the body is JSON whose `news` articles all carry a YYYY-MM-DD date
BodyIsNormalized(body) ==
    /\ json_loads(body).exc = "none"
    /\ json_loads(body).v.t = "obj"
    /\ HasKey(json_loads(body).v, NewsKey)
    /\ DictGet(json_loads(body).v, NewsKey).t = "arr" => AllDated(DictGet(json_loads(body).v, NewsKey))

\* C1: every finished invocation answered either 200 with a body whose news
\* articles all have a date of the form YYYY-MM-DD, or 500 with a plain-text
\* reason; no 200 carries an article whose date is not normalised.
C1_AllOrNothing ==
    \A i \in Invocations :
        pc[i] = "done" =>
            \/ http[i].status = 200 /\ BodyIsNormalized(http[i].body)
            \/ http[i].status = 500 /\ http[i].mimetype = "text/plain"

-----------------------------------------------------------------------------
(* C2 *)

\* C2: on a 200 response the body is the payload the extractor returned with
\* nothing changed but the date of each article of news: the other fields of
\* every article, the other top-level keys and the order of the articles are
\* those of the extracted payload.
C2_OnlyDatesChange ==
    \A i \in Invocations :
        http[i].status = 200 =>
            /\ json_loads(http[i].body).exc = "none"
            /\ SameButDates(news_data[i].v, json_loads(http[i].body).v)

\* a 200 answer to a payload with several articles, fields beside the date, an
\* article without date and a second top-level key
C2_Witness ==
    \E i \in Invocations :
        /\ http[i].status = 200
        /\ Keys(news_data[i].v) = <<NewsKey, <<"t","o","p","i","c">>>>
        /\ Len(DictGet(news_data[i].v, NewsKey).items) = 4
        /\ Keys(DictGet(news_data[i].v, NewsKey).items[1]) = <<<<"t","i","t","l","e">>, DateKey, <<"u","r","l">>>>
        /\ ~HasKey(DictGet(news_data[i].v, NewsKey).items[3], DateKey)

-----------------------------------------------------------------------------
(* C4 *)

\* C4: in every invocation, also when invocations interleave, the requests are
\* create_session and then at most one run_conversation; the latter exists only
\* once that invocation's create_session has returned an id, and carries that
\* id and the user id the invocation generated, which no other invocation has.
C4_CallsInSequence ==
    \A i \in Invocations :
        /\ Len(calls[i]) <= 2
        /\ Len(calls[i]) >= 1 =>
               /\ user_id[i] # None
               /\ calls[i][1] = CreateSessionRequest(user_id[i])
        /\ Len(calls[i]) = 2 =>
               /\ calls[i][2].fn = "run_conversation"
               /\ Answered(session_response[i])
               /\ session_response[i].json.t = "obj"
               /\ HasKey(session_response[i].json, IdKey)
               /\ calls[i][2].sessionId = DictGet(session_response[i].json, IdKey)
               /\ calls[i][2].userId = user_id[i]
               /\ \A j \in Invocations \ {i} : calls[i][2].userId # user_id[j]

\* two invocations that both issued run_conversation, with different session ids
C4_Witness ==
    \E i, j \in Invocations :
        /\ i # j
        /\ Len(calls[i]) = 2 /\ Len(calls[j]) = 2
        /\ calls[i][2].sessionId # calls[j][2].sessionId
        /\ pc[i] = "await_run" /\ pc[j] = "done"

-----------------------------------------------------------------------------
(* C5 *)

LacksId(answer) ==
    Answered(answer) /\ answer.json.t = "obj" /\ ~HasKey(answer.json, IdKey)

\* C5: when the create_session response is a mapping without `id`, the
\* invocation answers 500 "Failed to get session ID from response" and never
\* issues run_conversation.
C5_MissingSessionId ==
    \A i \in Invocations :
        LacksId(session_response[i]) =>
            /\ pc[i] = "done"
            /\ http[i] = HttpResponse(FailedSessionMsg, 500, "text/plain")
            /\ RequestsOf(i, "run_conversation") = {}

\* an invocation whose create_session response had no `id`
C5_Witness ==
    \E i \in Invocations : LacksId(session_response[i]) /\ http[i].status = 500

-----------------------------------------------------------------------------
(* C6 *)

\* the reply is of the wrong shape, or its text holds no JSON object, or holds
\* the malformed one
ExtractionMustFail(reply) ==
    \/ ~ExposesText(reply)
    \/ LacksBrace(TextOf(reply))
    \/ TextOf(reply) = MalformedText

\* C6: once run_conversation has returned, the extractor never raises; a reply
\* of the wrong shape, without JSON or with malformed JSON gives None; and
\* whenever it gave None or a payload without `news` the answer is 500
\* "Failed to parse news data from response".
C6_ExtractionFailure ==
    \A i \in Invocations :
        pc[i] = "done" /\ Answered(conversation_response[i]) =>
            /\ news_data[i].exc = "none"
            /\ ExtractionMustFail(conversation_response[i].json) => news_data[i].v = JNull
            /\ news_data[i].v = JNull \/ ~HasKey(news_data[i].v, NewsKey) =>
                   http[i] = HttpResponse(FailedParseMsg, 500, "text/plain")

\* one invocation got malformed JSON, another a payload without `news`
C6_Witness ==
    \E i, j \in Invocations :
        /\ pc[i] = "done" /\ Answered(conversation_response[i])
        /\ ExposesText(conversation_response[i].json)
        /\ TextOf(conversation_response[i].json) = MalformedText
        /\ pc[j] = "done" /\ Answered(conversation_response[j])
        /\ news_data[j].v # JNull /\ ~HasKey(news_data[j].v, NewsKey)

-----------------------------------------------------------------------------
(* C7 *)

\* C7: each outbound call is made at most once per invocation; when
\* create_session fails the invocation ends with 500 carrying the exception
\* text and run_conversation is never requested; when run_conversation fails
\* the invocation ends with 500 carrying the exception text.
C7_TransportFailure ==
    \A i \in Invocations :
        /\ Cardinality(RequestsOf(i, "create_session")) <= 1
        /\ Cardinality(RequestsOf(i, "run_conversation")) <= 1
        /\ IsTransportError(session_response[i]) =>
               /\ pc[i] = "done"
               /\ http[i] = HttpResponse(UnexpectedPrefix
                                           \o ExcText(TransportError(session_response[i])),
                                         500, "text/plain")
               /\ Len(calls[i]) = 1
        /\ IsTransportError(conversation_response[i]) =>
               /\ pc[i] = "done"
               /\ http[i] = HttpResponse(UnexpectedPrefix
                                           \o ExcText(TransportError(conversation_response[i])),
                                         500, "text/plain")
               /\ Len(calls[i]) = 2

\* one invocation whose create_session failed, one whose run_conversation failed
C7_Witness ==
    \E i, j \in Invocations :
        /\ IsTransportError(session_response[i]) /\ pc[i] = "done"
        /\ IsTransportError(conversation_response[j]) /\ pc[j] = "done"

-----------------------------------------------------------------------------
(* C3, C10: parse_date on its own, under SpecDate *)

\* C3: parse_date returns a string of the form YYYY-MM-DD for every input and
\* never raises.
C3_Total == phase = "done" => date_ret.exc = "none" /\ IsYMD(date_ret.v)

\* the calendar date `minutes` minutes before `when`, when the calendar has one
Earlier(when, days, minutes) ==
    IF when.ord - days - (IF when.min < minutes THEN 1 ELSE 0) >= 1
    THEN [known |-> TRUE,
          date |-> fromordinal(when.ord - days - (IF when.min < minutes THEN 1 ELSE 0))]
    ELSE [known |-> FALSE, date |-> Date(1, 1, 1)]

Known(dt) == [known |-> TRUE, date |-> dt]

\* the relative-date rule: magnitude from the first token, unit code from the
\* first character of the second
RelativeRule(parts, when) ==
    IF Len(parts) < 2 \/ FirstDigitRun(parts[1]) = <<>>
    THEN Known(fromordinal(when.ord))
    ELSE IF lower(parts[2][1]) = "h"
    THEN Earlier(when, int(FirstDigitRun(parts[1])) \div 24,
                 (int(FirstDigitRun(parts[1])) % 24) * 60)
    ELSE IF lower(parts[2][1]) = "d"
    THEN Earlier(when, int(FirstDigitRun(parts[1])), 0)
    ELSE IF lower(parts[2][1]) = "m"
    THEN Earlier(when, int(FirstDigitRun(parts[1])) \div 1440,
                 int(FirstDigitRun(parts[1])) % 1440)
    ELSE Known(fromordinal(when.ord))

\* s is an abbreviated month and a day that exist in year y
IsMonthDay(parts, y) ==
    /\ Len(parts) = 2
    /\ \E m \in 1..12 : MonthAbbr[m] = LowerStr(parts[1])
    /\ IsDayDirective(parts[2])
    /\ ValidDate(y, CHOOSE m \in 1..12 : MonthAbbr[m] = LowerStr(parts[1]), int(parts[2]))

\* the date the rules give the trimmed string s at `when`, first match winning
RuleDate(s, when) ==
    IF Contains(s, Ago) THEN RelativeRule(split(s), when)
    ELSE IF IsMonthDay(split(s), fromordinal(when.ord).y)
    THEN Known(Date(fromordinal(when.ord).y,
                    CHOOSE m \in 1..12 : MonthAbbr[m] = LowerStr(split(s)[1]),
                    int(split(s)[2])))
    ELSE IF fromisoformat(ReplaceZ(s)).ok THEN Known(fromisoformat(ReplaceZ(s)).date)
    ELSE Known(fromordinal(when.ord))

\* C10: for a string input the result is the date the rules give, first match
\* winning: with "ago" the relative rule alone (now minus the magnitude in
\* hours, days or minutes, today for another unit or a parse failure), else
\* month and day in the current year, else the ISO string's own date, else
\* today.
C10_FirstMatchWins ==
    phase = "done" /\ date_arg.t = "str" =>
        /\ RuleDate(strip(date_arg.s), now).known
        /\ date_ret = Ok(IsoText(RuleDate(strip(date_arg.s), now).date))

-----------------------------------------------------------------------------
(* C8, C9: extract_news_content on its own, under SpecExtract *)

\* C8: extract returns None, without raising, for every reply that is no
\* non-empty list exposing a text at content -> parts -> first part -> text,
\* and for every text that lacks a `{` or a `}` or whose only `}` precedes its
\* only `{`.
C8_NoneWithoutRaising ==
    phase = "done" =>
        /\ reply_ret.exc = "none"
        /\ ~ExposesText(reply_arg) => reply_ret = Ok(JNull)
        /\ ExposesText(reply_arg) /\ LacksBrace(TextOf(reply_arg)) => reply_ret = Ok(JNull)
        /\ ExposesText(reply_arg) /\ BracesReversed(TextOf(reply_arg)) =>
               reply_ret = Ok(JNull)

\* extract has returned for a reply whose `parts` is an empty list
C8_Witness ==
    /\ phase = "done"
    /\ reply_arg = JArr(<<JObj(<<Member(TextPath[1],
                                        JObj(<<Member(TextPath[2], JArr(<<>>))>>))>>)>>)
    /\ reply_ret = Ok(JNull)

IsTopPair(reply) ==
    \E pre \in Prefixes, post \in Suffixes, g \in Gaps :
        reply = Reply(Text(pre \o TopPair(g) \o post))

IsInArray(reply) ==
    \E pre \in Prefixes, post \in Suffixes, g \in Gaps :
        reply = Reply(Text(pre \o InArray(g) \o post))

BothFragments ==
    JObj(<<Member(NewsKey,
                  JArr(<<JObj(<<Member(<<"a">>, JNum(<<"1">>))>>),
                         JObj(<<Member(<<"b">>, JNum(<<"2">>))>>)>>))>>)

\* C9 as stated: a text that contains two JSON objects separated only by
\* whitespace, such as {"a":1} {"b":2}, gives a result that is not None.
C9_PairAlwaysRepaired ==
    phase = "done" /\ (IsTopPair(reply_arg) \/ IsInArray(reply_arg)) =>
        reply_ret.exc = "none" /\ reply_ret.v # JNull

\* C9 amended: where the two objects are neighbours in an array of one
\* enclosing object, the boundary is rewritten and the result holds both
\* fragments; where they are the whole of the JSON, the repaired slice is not
\* one JSON value and the result is None.
C9_RepairedInsideArray ==
    phase = "done" =>
        /\ IsInArray(reply_arg) => reply_ret = Ok(BothFragments)
        /\ IsTopPair(reply_arg) => reply_ret = Ok(JNull)

\* extract has returned for two objects in an array with a two-character gap
C9_Witness ==
    /\ phase = "done"
    /\ \E pre \in Prefixes, post \in Suffixes :
           reply_arg = Reply(Text(pre \o InArray(<<" ", "\n">>) \o post))
    /\ reply_ret.v # JNull

=============================================================================
